---- MODULE Spec2Model ----
(***************************************************************************)
(* A model of the photo booth's autofocus-box removal                      *)
(* (src/src/image_processing.rs, ImageProcessor), of Session               *)
(* (src/src/session.rs) and of Config::from_env (src/src/config.rs).       *)
(*                                                                         *)
(* A raster is the sequence of its rows of pixels <<r, g, b>>.             *)
(* remove_autofocus_boxes is modelled pass by pass.  The three loops of    *)
(* detect_autofocus_box that test membership in the set they are adding to *)
(* (edge combination, pass 4, pass 6) run one element per step, in the     *)
(* order the hash set happens to yield; the detection loops that read only *)
(* the raster run as one step; the inpainting loops run their last         *)
(* iterations one per step.  The build modelled is the one for Linux; on   *)
(* other targets remove_autofocus_boxes returns a clone of its argument.   *)
(***************************************************************************)
EXTENDS Integers, Sequences, FiniteSets, TLC

VARIABLES
    width,            \* img.dimensions().0
    height,           \* img.dimensions().1
    image,            \* the raster handed to the first call
    img,              \* the working copy (image.to_rgb8()), mutated by inpainting
    pc,               \* position in the call
    call,             \* "first" | "again" (same raster once more) | "redetect"
    detected_pixels,  \* HashSet<(u32, u32)> of detect_autofocus_box
    edge_pixels,      \* HashSet<(u32, u32)> of pass 2
    todo,             \* the elements the current loop has yet to visit
    box_pixels,       \* the elements of the Vec<(u32, u32)> returned by detection
    mask,             \* the expanded mask of multi_pass_inpaint
    original,         \* img.clone() before inpaint pass 1
    intermediate,     \* img.clone() before inpaint pass 2
    first_box,        \* the candidate set of the first call
    first_out,        \* the raster returned by the first call
    session,          \* the Session row of the booth's visitor
    outcome,          \* how the last session request ended: "none" | "ok" | "panicked"
    env,              \* the process environment: variable name |-> value
    config            \* what the last Config::from_env() returned, None before it

vars == <<width, height, image, img, pc, call, detected_pixels, edge_pixels,
          todo, box_pixels, mask, original, intermediate, first_box, first_out,
          session, outcome, env, config>>

\* What the calls of remove_autofocus_boxes leave alone.
non_image == <<session, outcome, env, config>>

----------------------------------------------------------------------------
(* Bounds of the model *)

\* The last MaxFreeOrder elements of a hash set are iterated in every order,
\* the elements before them in row-major order.
MaxFreeOrder == 3

\* At most this many pixels of a drawn raster differ from its background.
MaxMarks == 3

\* The same on a bright background, where every pixel of the search region
\* is detected.
MaxBrightMarks == 1

\* A request body of update_session carries at most this many keys.
MaxBodyKeys == 2

----------------------------------------------------------------------------
(* Pixels and rasters *)

Min(a, b) == IF a <= b THEN a ELSE b
Max(a, b) == IF a >= b THEN a ELSE b
Abs(a) == IF a >= 0 THEN a ELSE -a
MinOf(S) == CHOOSE m \in S : \A n \in S : m <= n

Black == <<0, 0, 0>>
Dim   == <<190, 190, 190>>     \* luminance above 180, no channel above 200
Amber == <<240, 240, 100>>     \* channels above 235 but not all three
White == <<255, 255, 255>>

None == << >>                  \* Option::None

Coords(w, h) == (0 .. w - 1) \X (0 .. h - 1)

InBounds(nx, ny) == nx >= 0 /\ ny >= 0 /\ nx < width /\ ny < height

\* A raster is the sequence of its rows, a row the sequence of its pixels.
get_pixel(im, c) == im[c[2] + 1][c[1] + 1]

\* The first element of a non-empty set of coordinates in row-major order.
First(S) ==
    LET y0 == MinOf({c[2] : c \in S})
        x0 == MinOf({c[1] : c \in {d \in S : d[2] = y0}})
    IN  <<x0, y0>>

\* The elements a loop over the hash set's remainder S may yield next: any
\* of them once at most MaxFreeOrder are left, before that the first in
\* row-major order.
Choices(S) == IF Cardinality(S) <= MaxFreeOrder THEN S ELSE {First(S)}

\* Of the elements of S, a set of coordinates of the raster, that a loop
\* visits in row-major order before its last MaxFreeOrder: those of the first
\* row.
PrefixRow(S) ==
    LET grid == [i \in 1 .. width * height |-> <<(i - 1) % width, (i - 1) \div width>>]
        Member(c) == c \in S
        sorted == SelectSeq(grid, Member)
        prefix == SubSeq(sorted, 1, Len(sorted) - MaxFreeOrder)
        SameRow(c) == c[2] = prefix[1][2]
    IN  SelectSeq(prefix, SameRow)

\* iter().cloned().collect(): the elements of a set, one by one.
Collected(S) == {c : c \in S}

SeqRange(s) == {s[i] : i \in DOMAIN s}

AllAbove(p, t) == p[1] > t /\ p[2] > t /\ p[3] > t
AnyAbove(p, t) == p[1] > t \/ p[2] > t \/ p[3] > t
AllBelow(p, t) == p[1] < t /\ p[2] < t /\ p[3] < t

\* (c[0] as u32 + c[1] as u32 + c[2] as u32) / 3
Luminance(p) == (p[1] + p[2] + p[3]) \div 3

----------------------------------------------------------------------------
(* detect_autofocus_box *)

\* Faulty variant: 0.03 in place of 0.3.
max_x_hundredths == (3 * width) \div 100

\* (width as f32 * 0.3) as u32 and (height as f32 * 0.6) as u32; for every
\* dimension below 5000 the f32 product truncates to these quotients.
max_x == (3 * width) \div 10
min_y == (6 * height) \div 10

\* Pass 1: for y in min_y..height, for x in 0..max_x
SearchRegion == (0 .. max_x - 1) \X (min_y .. height - 1)

BrightPixels(im) == {c \in SearchRegion : AllAbove(get_pixel(im, c), 235)}

\* Faulty variant: the rows of the edge scan run to the last row.
EdgeRowsToLastRow == Max(min_y, 1) .. height - 1

\* Pass 2: for y in min_y.max(1)..height - 1, for x in 1..max_x.min(width - 1)
EdgeRows == Max(min_y, 1) .. height - 2
EdgeCols == 1 .. Min(max_x, width - 1) - 1
EdgeScan == EdgeCols \X EdgeRows

Ring == {d \in (-1 .. 1) \X (-1 .. 1) : d # <<0, 0>>}

\* The pixels is_high_contrast_edge(img, x, y) reads, none of them checked.
EdgeReads(c) == {c} \cup {<<c[1] + d[1], c[2] + d[2]>> : d \in Ring}

is_high_contrast_edge(im, c) ==
    LET center_lum == Luminance(get_pixel(im, c))
    IN  /\ \E d \in Ring :
              Abs(center_lum - Luminance(get_pixel(im, <<c[1] + d[1], c[2] + d[2]>>))) > 50
        /\ center_lum > 180

Near2 == (-2 .. 2) \X (-2 .. 2)

\* Faulty variant: every edge pixel is inserted.
CombineEdgeAlways(det, c) == det \cup {c}

\* Combine: the edge pixel is inserted when the set, as it is now, holds a
\* pixel of its 5x5 neighbourhood.
CombineEdge(det, c) ==
    IF \E d \in Near2 : <<c[1] + d[1], c[2] + d[2]>> \in det
    THEN det \cup {c}
    ELSE det

\* Faulty variant: the expansion is kept within the raster only.
ExpandAroundInRaster(im, c) ==
    {n \in {<<c[1] + d[1], c[2] + d[2]>> : d \in Near2} :
        /\ n[1] >= 0 /\ n[2] >= 0
        /\ n[1] < width /\ n[2] < height
        /\ AnyAbove(get_pixel(im, n), 200)}

\* Pass 3: the neighbours one snapshot pixel adds.
ExpandAround(im, c) ==
    {n \in {<<c[1] + d[1], c[2] + d[2]>> : d \in Near2} :
        /\ n[1] >= 0 /\ n[2] >= 0 /\ n[1] < max_x /\ n[2] >= min_y
        /\ n[1] < width /\ n[2] < height
        /\ AnyAbove(get_pixel(im, n), 200)}

Pass3Expansion(im, det) == det \cup UNION {ExpandAround(im, c) : c \in det}

\* Pass 4: one snapshot pixel, tested against the set as it is now.
is_horizontal(det, c) ==
    \/ (c[1] > 0 /\ <<c[1] - 1, c[2]>> \in det)
    \/ (c[1] < width - 1 /\ <<c[1] + 1, c[2]>> \in det)

is_vertical(det, c) ==
    \/ (c[2] > 0 /\ <<c[1], c[2] - 1>> \in det)
    \/ (c[2] < height - 1 /\ <<c[1], c[2] + 1>> \in det)

\* Faulty variant: nine rows up and down.
ColumnRunOfNine(c) ==
    {<<c[1], ny>> : ny \in {c[2] + dy : dy \in -9 .. 9} \cap (0 .. height - 1)}

ColumnRun(c) ==
    {<<c[1], ny>> : ny \in {c[2] + dy : dy \in -8 .. 8} \cap (0 .. height - 1)}

RowRun(c) ==
    {<<nx, c[2]>> : nx \in {c[1] + dx : dx \in -4 .. 4}
                           \cap (0 .. Min(max_x + 5, width) - 1)}

\* Faulty variant: a pixel that is part of no line is removed.
DirectionalExpandOrDrop(det, c) ==
    IF ~is_horizontal(det, c) /\ ~is_vertical(det, c) THEN det \ {c}
    ELSE det \cup (IF is_horizontal(det, c) THEN ColumnRun(c) ELSE {})
             \cup (IF is_vertical(det, c) THEN RowRun(c) ELSE {})

DirectionalExpand(det, c) ==
    det \cup (IF is_horizontal(det, c) THEN ColumnRun(c) ELSE {})
        \cup (IF is_vertical(det, c) THEN RowRun(c) ELSE {})

\* Faulty variant: the run stops one row below the bright pixel.
CompleteUpBelowHit(im, c) ==
    LET hits == {dy \in 1 .. 20 :
                    c[2] - dy >= 0 /\ AnyAbove(get_pixel(im, <<c[1], c[2] - dy>>), 200)}
    IN  IF hits = {} THEN {}
        ELSE {<<c[1], fill_y>> : fill_y \in c[2] - MinOf(hits) + 1 .. c[2]}

\* Pass 5: the pixels one snapshot pixel adds: the run from the nearest
\* bright pixel within 20 rows above it down to itself.
CompleteUp(im, c) ==
    LET hits == {dy \in 1 .. 20 :
                    c[2] - dy >= 0 /\ AnyAbove(get_pixel(im, <<c[1], c[2] - dy>>), 200)}
    IN  IF hits = {} THEN {}
        ELSE {<<c[1], fill_y>> : fill_y \in c[2] - MinOf(hits) .. c[2]}

\* Faulty variant: the completion replaces the set.
Pass5CompletionOnly(im, det) == UNION {CompleteUp(im, c) : c \in det}

Pass5Completion(im, det) == det \cup UNION {CompleteUp(im, c) : c \in det}

\* Pass 6: x.saturating_sub(1) and y.saturating_sub(1)
SaturatingSub1(n) == IF n >= 1 THEN n - 1 ELSE 0

has_horizontal(det, c) ==
    <<SaturatingSub1(c[1]), c[2]>> \in det \/ <<c[1] + 1, c[2]>> \in det

has_vertical(det, c) ==
    <<c[1], SaturatingSub1(c[2])>> \in det \/ <<c[1], c[2] + 1>> \in det

Near6 == (-6 .. 6) \X (-6 .. 6)

CornerFlood(im, c) ==
    {n \in {<<c[1] + d[1], c[2] + d[2]>> : d \in Near6} :
        InBounds(n[1], n[2]) /\ AnyAbove(get_pixel(im, n), 180)}

CornerFill(im, det, c) ==
    IF has_horizontal(det, c) /\ has_vertical(det, c)
    THEN det \cup CornerFlood(im, c)
    ELSE det

----------------------------------------------------------------------------
(* multi_pass_inpaint *)

\* Faulty variant: 10 columns and 7 rows around the pixel.
MaskAroundTransposed(c) ==
    {n \in {<<c[1] + dx, c[2] + dy>> : dx \in -10 .. 10, dy \in -7 .. 7} :
        InBounds(n[1], n[2])}

\* The expanded mask: every box pixel with 7 columns and 10 rows around it.
MaskAround(c) ==
    {n \in {<<c[1] + dx, c[2] + dy>> : dx \in -7 .. 7, dy \in -10 .. 10} :
        InBounds(n[1], n[2])}

ExpandedMask(box) == UNION {MaskAround(c) : c \in box}

RECURSIVE SumFrom(_, _, _)
SumFrom(f, lo, hi) ==
    IF lo > hi THEN 0
    ELSE IF lo = hi THEN f[lo]
    ELSE LET mid == (lo + hi) \div 2
         IN  SumFrom(f, lo, mid) + SumFrom(f, mid + 1, hi)

SumSeq(s) == SumFrom(s, 1, Len(s))

Channel(pixels, k) == [i \in DOMAIN pixels |-> pixels[i][k]]

\* values[idx] after values.sort_unstable(), idx counted from 0
SortedAt(values, idx) ==
    CHOOSE v \in SeqRange(values) :
        /\ Cardinality({i \in DOMAIN values : values[i] < v}) <= idx
        /\ idx < Cardinality({i \in DOMAIN values : values[i] <= v})

average_pixels(pixels) ==
    IF Len(pixels) = 0 THEN <<128, 128, 128>>
    ELSE <<SumSeq(Channel(pixels, 1)) \div Len(pixels),
           SumSeq(Channel(pixels, 2)) \div Len(pixels),
           SumSeq(Channel(pixels, 3)) \div Len(pixels)>>

\* Faulty variant: the lower of the two middle elements.
median_pixel_lower(pixels) ==
    IF Len(pixels) = 0 THEN <<128, 128, 128>>
    ELSE LET mid == (Len(pixels) - 1) \div 2
         IN  <<SortedAt(Channel(pixels, 1), mid),
               SortedAt(Channel(pixels, 2), mid),
               SortedAt(Channel(pixels, 3), mid)>>

median_pixel(pixels) ==
    IF Len(pixels) = 0 THEN <<128, 128, 128>>
    ELSE LET mid == Len(pixels) \div 2
         IN  <<SortedAt(Channel(pixels, 1), mid),
               SortedAt(Channel(pixels, 2), mid),
               SortedAt(Channel(pixels, 3), mid)>>

\* Pass 1 of the inpainting: rays from the centre point.
directions ==
    <<<<-1, -1>>, <<0, -1>>, <<1, -1>>, <<-1, 0>>,
      <<1, 0>>, <<-1, 1>>, <<0, 1>>, <<1, 1>>>>

RayAt(c, dir, dist) == <<c[1] + dir[1] * dist, c[2] + dir[2] * dist>>

\* Faulty variant: the ray ignores the mask.
RayHitsUnmasked(im, c, msk, dir) ==
    {dist \in 12 .. 24 :
        LET n == RayAt(c, dir, dist)
        IN  InBounds(n[1], n[2]) /\ AllBelow(get_pixel(im, n), 200)}

\* The distances of one ray at which a sample is acceptable (for dist in 12..25).
RayHits(im, c, msk, dir) ==
    {dist \in 12 .. 24 :
        LET n == RayAt(c, dir, dist)
        IN  /\ InBounds(n[1], n[2])
            /\ n \notin msk
            /\ AllBelow(get_pixel(im, n), 200)}

\* The coordinates sampled for c: per direction the first acceptable one.
FarSampleCoords(im, c, msk) ==
    LET Hit(dir) == RayHits(im, c, msk, dir) # {}
        used == SelectSeq(directions, Hit)
    IN  [i \in DOMAIN used |-> RayAt(c, used[i], MinOf(RayHits(im, c, msk, used[i])))]

\* Faulty variant: with no samples the grey of average_pixels is returned.
sample_far_neighbors_or_grey(im, c, msk) ==
    LET at == FarSampleCoords(im, c, msk)
        samples == [i \in DOMAIN at |-> get_pixel(im, at[i])]
    IN  IF Len(samples) >= 4 THEN median_pixel(samples) ELSE average_pixels(samples)

sample_far_neighbors(im, c, msk) ==
    LET at == FarSampleCoords(im, c, msk)
        samples == [i \in DOMAIN at |-> get_pixel(im, at[i])]
    IN  IF Len(samples) >= 4 THEN median_pixel(samples)
        ELSE IF Len(samples) > 0 THEN average_pixels(samples)
        ELSE None

\* The window of radius r around c in scan order (dy outer, dx inner).
WindowScan(c, r) ==
    [i \in 1 .. (2 * r + 1) * (2 * r + 1) |->
        <<c[1] + ((i - 1) % (2 * r + 1)) - r, c[2] + ((i - 1) \div (2 * r + 1)) - r>>]

\* if dx.abs() < skip && dy.abs() < skip { continue; }
Skipped(c, n, skip) == Abs(n[1] - c[1]) < skip /\ Abs(n[2] - c[2]) < skip

\* Faulty variant: pixels with channels up to 230 are sampled.
BilateralSampleCoordsUpTo230(im, c, box_set) ==
    LET Taken(n) == /\ ~Skipped(c, n, 5)
                    /\ InBounds(n[1], n[2])
                    /\ n \notin box_set
                    /\ ~AnyAbove(get_pixel(im, n), 230)
    IN  SelectSeq(WindowScan(c, 15), Taken)

\* Faulty variant: the pixels of box_set are sampled as well.
BilateralSampleCoordsWithBox(im, c, box_set) ==
    LET Taken(n) == /\ ~Skipped(c, n, 5)
                    /\ InBounds(n[1], n[2])
                    /\ ~AnyAbove(get_pixel(im, n), 210)
    IN  SelectSeq(WindowScan(c, 15), Taken)

\* Pass 2 of the inpainting: the coordinates bilateral_sample takes samples
\* from.
BilateralSampleCoords(im, c, box_set) ==
    LET Taken(n) == /\ ~Skipped(c, n, 5)
                    /\ InBounds(n[1], n[2])
                    /\ n \notin box_set
                    /\ ~AnyAbove(get_pixel(im, n), 210)
    IN  SelectSeq(WindowScan(c, 15), Taken)

\* The weight of a sample.  The code's weight is the f64
\* exp(-dist / 10) * exp(-color_dist / 50), which halves every 6.93 pixels
\* of distance and every 34.7 units of colour distance; here it is the
\* integer 2^(10 - dist div 7 - color_dist div 35), at least 1.  Like the
\* code's it is positive for every sample taken, so the blend is a rounded
\* weighted mean of the samples.
Pow2(n) == IF n <= 0 THEN 1 ELSE 2 ^ n

\* The number of whole steps of length q in the square root of v2, counted
\* from k.
RECURSIVE StepsFrom(_, _, _)
StepsFrom(q, v2, k) ==
    IF q * q * (k + 1) * (k + 1) <= v2 THEN StepsFrom(q, v2, k + 1) ELSE k

SampleWeight(c, n, center_pixel, sample) ==
    LET d2  == (n[1] - c[1]) * (n[1] - c[1]) + (n[2] - c[2]) * (n[2] - c[2])
        dr  == center_pixel[1] - sample[1]
        dg  == center_pixel[2] - sample[2]
        db  == center_pixel[3] - sample[3]
        cd2 == dr * dr + dg * dg + db * db
    IN  Pow2(10 - StepsFrom(7, d2, 0) - StepsFrom(35, cd2, 0))

\* (weighted_sum / total_weight).round().min(255.0) as u8
RoundDiv(sum, total) == Min((2 * sum + total) \div (2 * total), 255)

\* total_weight and the three weighted sums over the samples at[lo..hi]
RECURSIVE WeightedSums(_, _, _, _, _)
WeightedSums(im, c, at, lo, hi) ==
    IF lo > hi THEN <<0, 0, 0, 0>>
    ELSE IF lo = hi
    THEN LET sample == get_pixel(im, at[lo])
             weight == SampleWeight(c, at[lo], get_pixel(im, c), sample)
         IN  <<weight, sample[1] * weight, sample[2] * weight, sample[3] * weight>>
    ELSE LET mid == (lo + hi) \div 2
             l == WeightedSums(im, c, at, lo, mid)
             r == WeightedSums(im, c, at, mid + 1, hi)
         IN  <<l[1] + r[1], l[2] + r[2], l[3] + r[3], l[4] + r[4]>>

bilateral_sample(im, c, box_set) ==
    LET at == BilateralSampleCoords(im, c, box_set)
        sums == WeightedSums(im, c, at, 1, Len(at))
        total_weight == sums[1]
    IN  IF total_weight > 0
        THEN <<RoundDiv(sums[2], total_weight),
               RoundDiv(sums[3], total_weight),
               RoundDiv(sums[4], total_weight)>>
        ELSE None

\* Pass 3 of the inpainting: the coordinates aggressive_cleanup samples.
CleanupSampleCoords(im, c) ==
    LET Taken(n) == /\ ~Skipped(c, n, 8)
                    /\ InBounds(n[1], n[2])
                    /\ AllBelow(get_pixel(im, n), 180)
    IN  SelectSeq(WindowScan(c, 20), Taken)

Brightness(p) == p[1] + p[2] + p[3]

\* sorted_by_brightness[idx] after the stable sort_by_key
SortedByBrightnessAt(samples, idx) ==
    LET Before(j, i) ==
            \/ Brightness(samples[j]) < Brightness(samples[i])
            \/ (Brightness(samples[j]) = Brightness(samples[i]) /\ j < i)
        i == CHOOSE k \in DOMAIN samples :
                 Cardinality({j \in DOMAIN samples : Before(j, k)}) = idx
    IN  samples[i]

\* Faulty variant: the 75th percentile.
aggressive_cleanup_upper(im, c) ==
    LET at == CleanupSampleCoords(im, c)
        samples == [i \in DOMAIN at |-> get_pixel(im, at[i])]
    IN  IF Len(samples) >= 10
        THEN SortedByBrightnessAt(samples, (Len(samples) * 75) \div 100)
        ELSE IF Len(samples) > 0 THEN median_pixel(samples)
        ELSE None

aggressive_cleanup(im, c) ==
    LET at == CleanupSampleCoords(im, c)
        samples == [i \in DOMAIN at |-> get_pixel(im, at[i])]
    IN  IF Len(samples) >= 10
        THEN SortedByBrightnessAt(samples, (Len(samples) * 25) \div 100)
        ELSE IF Len(samples) > 0 THEN median_pixel(samples)
        ELSE None

\* Faulty variant: the whole row of c is written.
put_pixel_row(im, c, color) ==
    [im EXCEPT ![c[2] + 1] = [x \in DOMAIN @ |-> color]]

put_pixel(im, c, color) == [im EXCEPT ![c[2] + 1][c[1] + 1] = color]

\* One iteration of each inpainting loop.
FarFill(im, orig, c, msk) ==
    LET color == sample_far_neighbors(orig, c, msk)
    IN  IF color # None THEN put_pixel(im, c, color) ELSE im

BilateralFill(im, inter, c, box_set) ==
    LET color == bilateral_sample(inter, c, box_set)
    IN  IF color # None THEN put_pixel(im, c, color) ELSE im

\* Faulty variant: the candidate is cleaned however bright it is.
CleanupFillAlways(im, inter, c) ==
    LET color == aggressive_cleanup(inter, c)
    IN  IF color # None THEN put_pixel(im, c, color) ELSE im

\* Faulty variant: the samples are taken from the raster being written.
CleanupFillLive(im, inter, c) ==
    IF AnyAbove(get_pixel(im, c), 220)
    THEN LET color == aggressive_cleanup(im, c)
         IN  IF color # None THEN put_pixel(im, c, color) ELSE im
    ELSE im

CleanupFill(im, inter, c) ==
    IF AnyAbove(get_pixel(im, c), 220)
    THEN LET color == aggressive_cleanup(inter, c)
         IN  IF color # None THEN put_pixel(im, c, color) ELSE im
    ELSE im

\* The iterations of each loop for the elements s[lo], ..., s[hi] in turn,
\* each one working on the raster the one before it left: `left` after the
\* first half of them, `right` after all (bound variables, so that each half
\* is evaluated once and before the next).
RECURSIVE FarFillRange(_, _, _, _, _, _)
FarFillRange(im, s, lo, hi, orig, msk) ==
    IF lo > hi THEN im
    ELSE IF lo = hi THEN FarFill(im, orig, s[lo], msk)
    ELSE CHOOSE right \in
             {FarFillRange(left, s, (lo + hi) \div 2 + 1, hi, orig, msk) :
                 left \in {FarFillRange(im, s, lo, (lo + hi) \div 2, orig, msk)}} : TRUE

RECURSIVE BilateralFillRange(_, _, _, _, _, _)
BilateralFillRange(im, s, lo, hi, inter, box_set) ==
    IF lo > hi THEN im
    ELSE IF lo = hi THEN BilateralFill(im, inter, s[lo], box_set)
    ELSE CHOOSE right \in
             {BilateralFillRange(left, s, (lo + hi) \div 2 + 1, hi, inter, box_set) :
                 left \in {BilateralFillRange(im, s, lo, (lo + hi) \div 2, inter, box_set)}} : TRUE

RECURSIVE CleanupFillRange(_, _, _, _, _)
CleanupFillRange(im, s, lo, hi, inter) ==
    IF lo > hi THEN im
    ELSE IF lo = hi THEN CleanupFill(im, inter, s[lo])
    ELSE CHOOSE right \in
             {CleanupFillRange(left, s, (lo + hi) \div 2 + 1, hi, inter) :
                 left \in {CleanupFillRange(im, s, lo, (lo + hi) \div 2, inter)}} : TRUE

----------------------------------------------------------------------------
(* Session *)

\* Option<T>: None is the empty tuple, Some(v) the tuple of v.
Some(v) == <<v>>
is_some(o) == o # None

\* Session::new(); id and created_at take no part in what follows.
Session_new ==
    [group_name |-> None, class |-> None, choice |-> None, email |-> None,
     photo_path |-> None, copies_printed |-> 0, story_text |-> None,
     headline |-> None, mailing_list |-> 0]

\* Faulty variant: the headline is not asked for.
is_complete_without_headline(self) ==
    /\ is_some(self.group_name)
    /\ is_some(self.class)
    /\ is_some(self.choice)
    /\ is_some(self.email)
    /\ is_some(self.photo_path)
    /\ is_some(self.story_text)

is_complete(self) ==
    /\ is_some(self.group_name)
    /\ is_some(self.class)
    /\ is_some(self.choice)
    /\ is_some(self.email)
    /\ is_some(self.photo_path)
    /\ is_some(self.story_text)
    /\ is_some(self.headline)

MaxI32 == 2147483647
MinI32 == -MaxI32 - 1

\* class_idx + choice_idx leaves the i32 range.
AddOverflows(a, b) ==
    \/ (b > 0 /\ a > MaxI32 - b)
    \/ (b < 0 /\ a < MinI32 - b)

\* The two's-complement sum, computed without leaving the i32 range.
WrappingAdd(a, b) ==
    IF b > 0 /\ a > MaxI32 - b THEN (a - MaxI32 - 1) + (b - MaxI32 - 1)
    ELSE IF b < 0 /\ a < MinI32 - b THEN (a + MaxI32 + 1) + (b + MaxI32 + 1)
    ELSE a + b

\* Rust's %: the remainder has the sign of the dividend.
Rem(a, n) ==
    IF a >= 0 THEN a % n
    ELSE IF a % n = 0 THEN 0 ELSE (a % n) - n

lands ==
    <<"a broken wagon at a fork in the road", "a mine shaft entrance",
      "distant mountain swamplands", "a cabin by a stream">>

\* lands.get(land_idx as usize).unwrap_or(..): a negative index casts to a
\* usize beyond the array.
LandAt(land_idx) ==
    IF land_idx >= 0 /\ land_idx < Len(lands) THEN lands[land_idx + 1]
    ELSE "the empty wilderness"

\* story_options.get(choice_idx as usize).unwrap_or(..): the row of four
\* captions, named by its index, or the row for an unknown figure.
CaptionRow(choice_idx) ==
    IF choice_idx >= 0 /\ choice_idx < 16 THEN ToString(choice_idx)
    ELSE "REASONS UNKNOWN"

\* chosen_caption_template.replace("{land}", land): the text is the caption
\* of that row and index with the land filled in.
Story(choice_idx, random_caption_idx, land) ==
    <<CaptionRow(choice_idx), ToString(random_caption_idx), land>>

headlines ==
    <<"High Noon Reckoning", "The Town's Shield", "Whiskey & Bruised Knuckles",
      "No Mercy, No Innocents", "The Mayor's Losing Hand", "A Fortune for the Folk",
      "The Serpent's Swindle", "The Gunpowder Gambit", "The Tycoon's Treasure",
      "The Marshal's Keys", "A Jewel for Justice", "The Great Candy Caper",
      "Mansion in Flames", "A Fiery Tune", "Ashes for my Enemies",
      "Christmas Inferno">>

HeadlineOf(choice_idx) ==
    IF choice_idx >= 0 /\ choice_idx < 16 THEN headlines[choice_idx + 1]
    ELSE "A Legend is Born"

\* Session::generate_story with class and choice set.
Generated(self, land_idx, random_caption_idx) ==
    [self EXCEPT
        !.headline = Some(HeadlineOf(self.choice[1])),
        !.story_text = Some(Story(self.choice[1], random_caption_idx, LandAt(land_idx)))]

----------------------------------------------------------------------------
(* Config *)

\* A variable of the environment is unset, set to a value that is not
\* Unicode, or set to a text.  The texts that are parsed are sequences of
\* characters.
Unset == <<"unset">>
NotUnicode == <<"not unicode">>
Text(t) == <<"text", t>>

\* std::env::var(name).unwrap_or_else(|_| default): var is an Err for an
\* unset variable and for a value that is not Unicode.
var_or(e, name, default) ==
    IF e[name][1] = "text" THEN e[name][2] ELSE default

Ok(v) == <<"Ok", v>>
Err(error) == <<"Err", error>>

\* char::to_digit(10), -1 for None.
to_digit(ch) ==
    LET digit == <<"0", "1", "2", "3", "4", "5", "6", "7", "8", "9">>
    IN  IF \E i \in 1 .. 10 : digit[i] = ch
        THEN (CHOOSE i \in 1 .. 10 : digit[i] = ch) - 1
        ELSE -1

\* The digits s[i], s[i + 1], ... accumulated onto acc with checked_mul(10)
\* and checked_add(digit), for an unsigned type of maximum
\* 10 * max_div_10 + max_mod_10: None for a character that is no digit and
\* for a value beyond the maximum.
RECURSIVE ParseDigits(_, _, _, _, _)
ParseDigits(s, i, acc, max_div_10, max_mod_10) ==
    IF i > Len(s) THEN Some(acc)
    ELSE IF to_digit(s[i]) < 0 THEN None
    ELSE IF acc > max_div_10 \/ (acc = max_div_10 /\ to_digit(s[i]) > max_mod_10) THEN None
    ELSE ParseDigits(s, i + 1, acc * 10 + to_digit(s[i]), max_div_10, max_mod_10)

\* str::parse for an unsigned integer: the empty text and a lone sign are
\* errors, one leading '+' is skipped, a '-' is no digit.
ParseUnsigned(s, max_div_10, max_mod_10) ==
    IF s = <<>> THEN None
    ELSE IF s[1] = "+"
    THEN IF Len(s) = 1 THEN None ELSE ParseDigits(s, 2, 0, max_div_10, max_mod_10)
    ELSE ParseDigits(s, 1, 0, max_div_10, max_mod_10)

\* parse::<u16>() and parse::<u32>().
parse_u16(s) == ParseUnsigned(s, 6553, 5)
parse_u32(s) == ParseUnsigned(s, 429496729, 5)

\* Faulty variant: the port is not looked at.
validate_without_port(self) ==
    IF self.camera.width = 0 \/ self.camera.height = 0 THEN Err("InvalidVideoDimensions")
    ELSE IF self.camera.format \notin {"MJPG", "YUYV"} THEN Err("UnsupportedVideoFormat")
    ELSE Ok(<<>>)

\* Config::validate
validate(self) ==
    IF self.server.port = 0 THEN Err("InvalidPort")
    ELSE IF self.camera.width = 0 \/ self.camera.height = 0 THEN Err("InvalidVideoDimensions")
    ELSE IF self.camera.format \notin {"MJPG", "YUYV"} THEN Err("UnsupportedVideoFormat")
    ELSE Ok(<<>>)

\* Config::from_env for the environment e; of the Config, the fields that
\* can fail or that validate looks at.
from_env(e) ==
    LET port == parse_u16(var_or(e, "PORT", <<"8", "0", "8", "0">>))
        camera_width == parse_u32(var_or(e, "VIDEO_WIDTH", <<"1", "9", "2", "0">>))
        camera_height == parse_u32(var_or(e, "VIDEO_HEIGHT", <<"1", "0", "8", "0">>))
        format == var_or(e, "VIDEO_FORMAT", "MJPG")
    IN  IF port = None THEN Err("InvalidPort")
        ELSE IF camera_width = None THEN Err("InvalidVideoWidth")
        ELSE IF camera_height = None THEN Err("InvalidVideoHeight")
        ELSE LET loaded == [server |-> [port |-> port[1]],
                            camera |-> [width |-> camera_width[1],
                                        height |-> camera_height[1],
                                        format |-> format]]
             IN  IF validate(loaded)[1] = "Err" THEN validate(loaded) ELSE Ok(loaded)

----------------------------------------------------------------------------
(* The calls: remove_autofocus_boxes step by step *)

\* The state in which remove_autofocus_boxes(raster) has copied its argument.
Start(w, h, raster) ==
    /\ width = w
    /\ height = h
    /\ image = raster
    /\ img = raster
    /\ pc = "pass1"
    /\ call = "first"
    /\ detected_pixels = {}
    /\ edge_pixels = {}
    /\ todo = {}
    /\ box_pixels = {}
    /\ mask = {}
    /\ original = None
    /\ intermediate = None
    /\ first_box = {}
    /\ first_out = None
    /\ session = Session_new
    /\ outcome = "none"
    /\ env = [name \in {"PORT", "VIDEO_WIDTH", "VIDEO_HEIGHT", "VIDEO_FORMAT"} |-> Unset]
    /\ config = None

Panicked ==
    /\ pc' = "panicked"
    /\ UNCHANGED <<non_image, width, height, image, img, call, detected_pixels, edge_pixels,
                   todo, box_pixels, mask, original, intermediate, first_box, first_out>>

\* Pass 1: find bright pixels.  get_pixel panics outside the raster.
Pass1Bright ==
    /\ pc = "pass1"
    /\ IF SearchRegion \subseteq Coords(width, height)
       THEN /\ detected_pixels' = BrightPixels(img)
            /\ pc' = "pass2"
            /\ UNCHANGED <<non_image, width, height, image, img, call, edge_pixels, todo,
                           box_pixels, mask, original, intermediate, first_box, first_out>>
       ELSE Panicked

\* `height - 1` is evaluated once, `width - 1` once per row of the scan.
\* With height = 0 and wrapping arithmetic the rows are 1..u32::MAX.
HeightUnderflows == height = 0
WidthUnderflows == width = 0 /\ (height = 0 \/ EdgeRows # {})

\* A u32 underflow panics when overflow checks are compiled in and wraps
\* otherwise; with height = 0 wrapped, a non-empty column range reads row 1.
Pass2Panics(overflow_checks) ==
    \/ overflow_checks /\ (HeightUnderflows \/ WidthUnderflows)
    \/ ~overflow_checks /\ height = 0 /\ width >= 1 /\ EdgeCols # {}
    \/ /\ height >= 1 /\ width >= 1
       /\ ~(UNION {EdgeReads(c) : c \in EdgeScan} \subseteq Coords(width, height))

EdgePixels(im) ==
    IF height = 0 \/ width = 0 THEN {}
    ELSE {c \in EdgeScan : is_high_contrast_edge(im, c)}

\* Pass 2: find high-contrast edges; the combining loop then walks edge_pixels.
Pass2EdgeScan ==
    /\ pc = "pass2"
    /\ \E overflow_checks \in BOOLEAN :
          IF Pass2Panics(overflow_checks)
          THEN Panicked
          ELSE /\ edge_pixels' = EdgePixels(img)
               /\ todo' = edge_pixels'
               /\ pc' = "combine"
               /\ UNCHANGED <<non_image, width, height, image, img, call, detected_pixels,
                              box_pixels, mask, original, intermediate, first_box, first_out>>

\* One iteration of `for &(x, y) in &edge_pixels`.
CombineStep ==
    /\ pc = "combine"
    /\ \E c \in Choices(todo) :
          /\ detected_pixels' = CombineEdge(detected_pixels, c)
          /\ todo' = todo \ {c}
    /\ UNCHANGED <<non_image, width, height, image, img, pc, call, edge_pixels, box_pixels,
                   mask, original, intermediate, first_box, first_out>>

\* Pass 3 over the snapshot original_pixels, then the snapshot of pass 4.
Pass3Expand ==
    /\ pc = "combine"
    /\ todo = {}
    /\ detected_pixels' = Pass3Expansion(img, detected_pixels)
    /\ todo' = Collected(detected_pixels')
    /\ pc' = "pass4"
    /\ UNCHANGED <<non_image, width, height, image, img, call, edge_pixels, box_pixels,
                   mask, original, intermediate, first_box, first_out>>

\* One iteration of pass 4's `for &(x, y) in &detected_vec`.
Pass4Step ==
    /\ pc = "pass4"
    /\ \E c \in Choices(todo) :
          /\ detected_pixels' = DirectionalExpand(detected_pixels, c)
          /\ todo' = todo \ {c}
    /\ UNCHANGED <<non_image, width, height, image, img, pc, call, edge_pixels, box_pixels,
                   mask, original, intermediate, first_box, first_out>>

\* The pixels pass 5 may read above c.
CompleteUpReads(c) == {<<c[1], ny>> : ny \in Max(0, c[2] - 20) .. c[2] - 1}

\* Pass 5 over the snapshot current_pixels, then the snapshot of pass 6.
Pass5EdgeCompletion ==
    /\ pc = "pass4"
    /\ todo = {}
    /\ IF UNION {CompleteUpReads(c) : c \in detected_pixels} \subseteq Coords(width, height)
       THEN /\ detected_pixels' = Pass5Completion(img, detected_pixels)
            /\ todo' = Collected(detected_pixels')
            /\ pc' = "pass6"
            /\ UNCHANGED <<non_image, width, height, image, img, call, edge_pixels,
                           box_pixels, mask, original, intermediate, first_box, first_out>>
       ELSE Panicked

\* One iteration of pass 6's `for &(x, y) in &detected_vec`.
Pass6Step ==
    /\ pc = "pass6"
    /\ \E c \in Choices(todo) :
          /\ detected_pixels' = CornerFill(img, detected_pixels, c)
          /\ todo' = todo \ {c}
    /\ UNCHANGED <<non_image, width, height, image, img, pc, call, edge_pixels, box_pixels,
                   mask, original, intermediate, first_box, first_out>>

\* detected_pixels.into_iter().collect(), and what the caller does with it:
\* remove_autofocus_boxes returns the copy when the Vec is empty and else
\* builds box_set and the mask and clones the raster for inpaint pass 1.
Collect ==
    /\ pc = "pass6"
    /\ todo = {}
    /\ box_pixels' = Collected(detected_pixels)
    /\ IF call = "redetect"
       THEN /\ pc' = "checked"
            /\ UNCHANGED <<todo, mask, original>>
       ELSE IF box_pixels' = {}
       THEN /\ pc' = "returned"
            /\ UNCHANGED <<todo, mask, original>>
       ELSE /\ pc' = "inpaint1"
            /\ mask' = ExpandedMask(box_pixels')
            /\ original' = img
            /\ todo' = box_pixels'
    /\ UNCHANGED <<non_image, width, height, image, img, call, detected_pixels, edge_pixels,
                   intermediate, first_box, first_out>>

\* Inpaint pass 1: the iterations before the last MaxFreeOrder run one raster
\* row per step, the last ones one per step; after the last,
\* `intermediate = img.clone()`.
Inpaint1Step ==
    /\ pc = "inpaint1"
    /\ IF ~(todo \subseteq Coords(width, height)) THEN Panicked
       ELSE IF Cardinality(todo) > MaxFreeOrder
       THEN /\ img' = FarFillRange(img, PrefixRow(todo), 1, Len(PrefixRow(todo)),
                                 original, mask)
            /\ todo' = todo \ SeqRange(PrefixRow(todo))
            /\ UNCHANGED <<non_image, width, height, image, pc, call,
                           detected_pixels, edge_pixels, box_pixels, mask, original,
                           intermediate, first_box, first_out>>
       ELSE \E c \in todo :
               /\ img' = FarFill(img, original, c, mask)
               /\ IF todo = {c}
                  THEN /\ intermediate' = img'
                       /\ todo' = box_pixels
                       /\ pc' = "inpaint2"
                  ELSE /\ todo' = todo \ {c}
                       /\ UNCHANGED <<intermediate, pc>>
               /\ UNCHANGED <<non_image, width, height, image, call,
                              detected_pixels, edge_pixels, box_pixels, mask, original,
                              first_box, first_out>>

\* Inpaint pass 2, stepped likewise.
Inpaint2Step ==
    /\ pc = "inpaint2"
    /\ IF ~(todo \subseteq Coords(width, height)) THEN Panicked
       ELSE IF Cardinality(todo) > MaxFreeOrder
       THEN /\ img' = BilateralFillRange(img, PrefixRow(todo), 1, Len(PrefixRow(todo)),
                                       intermediate, box_pixels)
            /\ todo' = todo \ SeqRange(PrefixRow(todo))
            /\ UNCHANGED <<non_image, width, height, image, pc, call,
                           detected_pixels, edge_pixels, box_pixels, mask, original,
                           intermediate, first_box, first_out>>
       ELSE \E c \in todo :
               /\ img' = BilateralFill(img, intermediate, c, box_pixels)
               /\ IF todo = {c}
                  THEN /\ todo' = box_pixels
                       /\ pc' = "inpaint3"
                  ELSE /\ todo' = todo \ {c}
                       /\ UNCHANGED pc
               /\ UNCHANGED <<non_image, width, height, image, call,
                              detected_pixels, edge_pixels, box_pixels, mask, original,
                              intermediate, first_box, first_out>>

\* Inpaint pass 3, stepped likewise; after the last iteration the call
\* returns img.
Inpaint3Step ==
    /\ pc = "inpaint3"
    /\ IF ~(todo \subseteq Coords(width, height)) THEN Panicked
       ELSE IF Cardinality(todo) > MaxFreeOrder
       THEN /\ img' = CleanupFillRange(img, PrefixRow(todo), 1, Len(PrefixRow(todo)),
                                     intermediate)
            /\ todo' = todo \ SeqRange(PrefixRow(todo))
            /\ UNCHANGED <<non_image, width, height, image, pc, call,
                           detected_pixels, edge_pixels, box_pixels, mask, original,
                           intermediate, first_box, first_out>>
       ELSE \E c \in todo :
               /\ img' = CleanupFill(img, intermediate, c)
               /\ todo' = todo \ {c}
               /\ pc' = IF todo = {c} THEN "returned" ELSE pc
               /\ UNCHANGED <<non_image, width, height, image, call,
                              detected_pixels, edge_pixels, box_pixels, mask, original,
                              intermediate, first_box, first_out>>

\* The caller keeps the result and calls again: on the same raster
\* (two calls with the same input), or detection on the result.
CallAgain ==
    /\ pc = "returned"
    /\ call = "first"
    /\ first_box' = box_pixels
    /\ first_out' = img
    /\ call' = "again"
    /\ img' = image
    /\ pc' = "pass1"
    /\ detected_pixels' = {}
    /\ edge_pixels' = {}
    /\ todo' = {}
    /\ box_pixels' = {}
    /\ mask' = {}
    /\ original' = None
    /\ intermediate' = None
    /\ UNCHANGED <<non_image, width, height, image>>

DetectOnResult ==
    /\ pc = "returned"
    /\ call = "first"
    /\ first_box' = box_pixels
    /\ first_out' = img
    /\ call' = "redetect"
    /\ pc' = "pass1"
    /\ detected_pixels' = {}
    /\ edge_pixels' = {}
    /\ todo' = {}
    /\ box_pixels' = {}
    /\ UNCHANGED <<non_image, width, height, image, img, mask, original, intermediate>>

\* The steps of one call.
NextCall ==
    \/ Pass1Bright
    \/ Pass2EdgeScan
    \/ CombineStep
    \/ Pass3Expand
    \/ Pass4Step
    \/ Pass5EdgeCompletion
    \/ Pass6Step
    \/ Collect
    \/ Inpaint1Step
    \/ Inpaint2Step
    \/ Inpaint3Step

Next ==
    \/ NextCall
    \/ CallAgain
    \/ DetectOnResult

----------------------------------------------------------------------------
(* The session requests *)

ImageIdle ==
    UNCHANGED <<width, height, image, img, pc, call, detected_pixels, edge_pixels,
                todo, box_pixels, mask, original, intermediate, first_box, first_out>>

SessionIdle == UNCHANGED <<session, outcome>>

ConfigIdle == UNCHANGED <<env, config>>

\* POST /session
create_session ==
    /\ session' = Session_new
    /\ outcome' = "ok"
    /\ ImageIdle
    /\ ConfigIdle

\* What a JSON body may carry under each key of update_session (an i64
\* within the i32 range, which `as i32` leaves as it is).
BodyValues ==
    [group_name     : {"Test Group"},
     class          : {1, MaxI32},
     choice         : {-3, 2, 16},
     email          : {"test@example.com"},
     photo_path     : {"/path/to/photo.png"},
     story_text     : {<<"Test story">>},
     headline       : {"Test headline"},
     copies_printed : {1},
     mailing_list   : {1}]

OptionKeys == {"group_name", "class", "choice", "email", "photo_path", "story_text", "headline"}
PlainKeys == {"copies_printed", "mailing_list"}

\* The sets of keys a body may have.
BodyKeys == {K \in SUBSET (OptionKeys \cup PlainKeys) : Cardinality(K) <= MaxBodyKeys}

\* The fields after `if let Some(v) = body.get(key)` for each key, for the
\* body that has the keys K with the values of v.
Updated(self, K, v) ==
    [k \in DOMAIN self |->
        IF k \in K
        THEN IF k \in OptionKeys THEN Some(v[k]) ELSE v[k]
        ELSE self[k]]

\* POST /session/{id}
update_session ==
    /\ \E K \in BodyKeys, v \in BodyValues : session' = Updated(session, K, v)
    /\ outcome' = "ok"
    /\ ImageIdle
    /\ ConfigIdle

\* POST /session/{id}/generate-story: session.generate_story(), then update.
\* The sum is checked when overflow checks are compiled in and wraps otherwise.
generate_story ==
    /\ IF is_some(session.class) /\ is_some(session.choice)
       THEN \E overflow_checks \in BOOLEAN, random_caption_idx \in 0 .. 3 :
               LET class_idx == session.class[1]
                   choice_idx == session.choice[1]
               IN  IF overflow_checks /\ AddOverflows(class_idx, choice_idx)
                   THEN /\ outcome' = "panicked"
                        /\ UNCHANGED session
                   ELSE /\ session' = Generated(session,
                                                Rem(WrappingAdd(class_idx, choice_idx), Len(lands)),
                                                random_caption_idx)
                        /\ outcome' = "ok"
       ELSE /\ outcome' = "ok"
            /\ UNCHANGED session
    /\ ImageIdle
    /\ ConfigIdle

NextSession ==
    \/ create_session
    \/ update_session
    \/ generate_story

----------------------------------------------------------------------------
(* The environment and the start of the booth *)

\* The values the environment is given under each name.
EnvValues ==
    [PORT         |-> {NotUnicode, Text(<<>>), Text(<<"0">>), Text(<<"+", "0">>),
                       Text(<<"-", "1">>), Text(<<"6", "5", "5", "3", "5">>),
                       Text(<<"6", "5", "5", "3", "6">>),
                       Text(<<"i", "n", "v", "a", "l", "i", "d">>)},
     VIDEO_WIDTH  |-> {Text(<<"0">>), Text(<<"6", "4", "0">>), Text(<<"w", "i", "d", "e">>)},
     VIDEO_HEIGHT |-> {NotUnicode, Text(<<"0">>), Text(<<"t", "a", "l", "l">>)},
     VIDEO_FORMAT |-> {NotUnicode, Text("YUYV"), Text("H264")}]

\* std::env::set_var(name, value)
set_var ==
    /\ \E name \in DOMAIN env : \E value \in EnvValues[name] :
          env' = [env EXCEPT ![name] = value]
    /\ UNCHANGED config
    /\ ImageIdle
    /\ SessionIdle

\* std::env::remove_var(name)
remove_var ==
    /\ \E name \in DOMAIN env : env' = [env EXCEPT ![name] = Unset]
    /\ UNCHANGED config
    /\ ImageIdle
    /\ SessionIdle

\* let config = Config::from_env()
load_config ==
    /\ config' = from_env(env)
    /\ UNCHANGED env
    /\ ImageIdle
    /\ SessionIdle

NextConfig ==
    \/ set_var
    \/ remove_var
    \/ load_config

----------------------------------------------------------------------------
(* The rasters drawn *)

Shapes == {<<0, 0>>, <<0, 4>>, <<8, 0>>, <<1, 1>>, <<2, 2>>, <<17, 4>>}

Backgrounds == {Black, White}

MarkColours == {Black, Dim, Amber, White}

\* Where a drawn raster may differ from its background: anywhere in a raster
\* too small to have a search region; otherwise at the sites of a stencil in
\* and just above the corner of the search region (which for 17 x 4 is
\* x < 5, y >= 2), with neighbours in a column and on a diagonal and sites
\* two apart.
Stencil == {<<1, 1>>, <<1, 3>>, <<2, 2>>, <<4, 2>>}

Sites(w, h) ==
    IF (3 * w) \div 10 = 0 THEN Coords(w, h) ELSE Stencil \cap Coords(w, h)

\* A dark background takes MaxMarks marks, a bright one MaxBrightMarks.
MarkBound(bg) == IF bg = White THEN MaxBrightMarks ELSE MaxMarks

Marked(w, h, bg, marks) ==
    [y \in 1 .. h |->
        [x \in 1 .. w |->
            IF <<x - 1, y - 1>> \in DOMAIN marks THEN marks[<<x - 1, y - 1>>] ELSE bg]]

Init ==
    \E shape \in Shapes, bg \in Backgrounds :
        \E S \in {T \in SUBSET Sites(shape[1], shape[2]) : Cardinality(T) <= MarkBound(bg)} :
            \E marks \in [S -> MarkColours \ {bg}] :
                Start(shape[1], shape[2], Marked(shape[1], shape[2], bg, marks))

Spec == Init /\ [][Next]_vars

\* The session requests, with no raster in hand.
InitSession == Start(0, 0, None)

SpecSession == InitSession /\ [][NextSession]_vars

\* The booth starting: no raster, the environment changing, the
\* configuration loaded.
SpecConfig == InitSession /\ [][NextConfig]_vars

\* The scenario of the solid rectangle: a 100 x 100 black raster with a
\* 20 x 4 white rectangle whose corner is at (10, 80).
Rectangle == (10 .. 29) \X (80 .. 83)

ScenarioRaster ==
    [y \in 1 .. 100 |->
        [x \in 1 .. 100 |-> IF <<x - 1, y - 1>> \in Rectangle THEN White ELSE Black]]

InitScenario == Start(100, 100, ScenarioRaster)

SpecScenario == InitScenario /\ [][NextCall]_vars

\* Rasters of 40 x 90, whose search region is x < 12, y >= 54, black but
\* for a few marks.  In the first a bright pixel in column 0 at the top of
\* the search region has a bright pixel above it and a dim one four columns
\* to its right.  In the second a bright corner at the right of the top of
\* the search region has bright pixels 28 rows above it, and dim ones 6
\* further up and 6 to the right of where the row of the corner ends.
LeftColumnMarks ==
    <<0, 54>> :> White @@ <<0, 53>> :> Amber @@ <<4, 54>> :> Dim

EscapeMarks ==
    <<10, 54>> :> White @@ <<11, 54>> :> White @@ <<11, 55>> :> White @@
    <<10, 26>> :> Amber @@ <<11, 26>> :> Amber @@ <<11, 20>> :> Dim @@ <<21, 54>> :> Dim

InitLarge ==
    \E marks \in {LeftColumnMarks, EscapeMarks} :
        Start(40, 90, Marked(40, 90, Black, marks))

SpecLarge == InitLarge /\ [][NextCall]_vars

\* Rasters with a texture.  The pale ones are 40 x 40 (search region x < 12,
\* y >= 24), of a grey too bright for every stage to sample, with one white
\* pixel in the search region and a patch of darker pixels 17 to 19 columns
\* to its right, off the rays of stage A and outside the window of stage B
\* around it.  The woven one is 60 x 40 (search region x < 18, y >= 24), its
\* channels running through 0 .. 215 at different paces, with two white
\* pixels in the search region.
Pale == <<215, 215, 215>>

DarkWeave(x, y) == <<(37 * x + 11 * y) % 170, (5 * x + 23 * y) % 160, (13 * x + 7 * y) % 150>>

Weave(x, y) == <<(37 * x + 11 * y) % 216, (5 * x + 23 * y) % 216, (13 * x + 7 * y) % 216>>

Patch(n) == {<<22 + (i \div 4), 26 + (i % 4)>> : i \in 0 .. n - 1}

PaleRaster(n) ==
    [y \in 1 .. 40 |->
        [x \in 1 .. 40 |->
            IF <<x - 1, y - 1>> = <<5, 30>> THEN White
            ELSE IF <<x - 1, y - 1>> \in Patch(n) THEN DarkWeave(x - 1, y - 1)
            ELSE Pale]]

WovenRaster ==
    [y \in 1 .. 40 |->
        [x \in 1 .. 60 |->
            IF <<x - 1, y - 1>> \in {<<14, 30>>, <<15, 30>>} THEN White
            ELSE Weave(x - 1, y - 1)]]

InitTextured ==
    \/ \E n \in {0, 6, 12} : Start(40, 40, PaleRaster(n))
    \/ Start(60, 40, WovenRaster)

SpecTextured == InitTextured /\ [][NextCall]_vars

----------------------------------------------------------------------------
(* Properties *)

Inpainting == pc \in {"inpaint1", "inpaint2", "inpaint3"}

Clean(im) == \A c \in SearchRegion : ~AllAbove(get_pixel(im, c), 235)

AllBright(im) == \A y \in DOMAIN im : \A x \in DOMAIN im[y] : AllAbove(im[y][x], 235)

\* The coordinates each stage samples for the candidate c of the call that
\* has returned.
StageASamples(c) == SeqRange(FarSampleCoords(original, c, mask))
StageBSamples(c) == SeqRange(BilateralSampleCoords(intermediate, c, box_pixels))
StageCSamples(c) == SeqRange(CleanupSampleCoords(intermediate, c))

\* C1 (locality): while the reconstruction runs and when the call has
\* returned, every pixel whose coordinate is not in the candidate set has the
\* value it has in the input, and the raster keeps its shape.
C1_Locality ==
    (Inpainting \/ pc = "returned") =>
        /\ Len(img) = height /\ \A y \in DOMAIN img : Len(img[y]) = width
        /\ \A c \in Coords(width, height) \ box_pixels : get_pixel(img, c) = get_pixel(image, c)

\* A call has returned a changed raster that has a pixel brighter than black
\* outside the candidate set.
C1_Witness ==
    /\ pc = "returned"
    /\ img # image
    /\ \E c \in Coords(width, height) \ box_pixels : get_pixel(image, c) # Black

\* C2 (determinism): the second of two calls on the same raster returns
\* the raster the first returned.
C2_Determinism ==
    (pc = "returned" /\ call = "again") => img = first_out

\* C3 (no-op on clean input): when no pixel of the search region has all
\* three channels above 235, no reconstruction stage runs, detection returns
\* the empty set and the call returns the input.
C3_CleanInputUnchanged ==
    Clean(image) =>
        /\ ~Inpainting
        /\ pc = "returned" => (box_pixels = {} /\ img = image)

\* A clean raster with a high-contrast edge and a channel above 200 in the
\* search region has been returned.
C3_Witness ==
    /\ pc = "returned"
    /\ Clean(image)
    /\ edge_pixels # {}
    /\ \E c \in SearchRegion : AnyAbove(get_pixel(image, c), 200)

\* C4 (boundary safety): a call on a raster with width >= 1 and height >= 1
\* never panics: no read or write leaves the raster, no subtraction underflows.
C4_BoundarySafety ==
    (width >= 1 /\ height >= 1) => pc # "panicked"

\* A call has returned with the raster's bottom-left corner pixel among the
\* candidates.
C4_Witness ==
    /\ pc = "returned"
    /\ <<0, height - 1>> \in box_pixels

\* C5 (zero dimensions): a call on a raster with width 0 or height 0
\* neither panics nor returns a raster.
C5_InvalidDimensions ==
    (width = 0 \/ height = 0) => pc \notin {"panicked", "returned"}

\* C6 (graceful degradation): a candidate for which the three stages find
\* no sample has its input value in the output; a raster whose every pixel is
\* bright is returned as it was, and the call on it does not panic.
C6_GracefulDegradation ==
    /\ pc = "returned" =>
          /\ \A c \in box_pixels :
                \/ get_pixel(img, c) = get_pixel(image, c)
                \/ StageASamples(c) # {}
                \/ StageBSamples(c) # {}
                \/ StageCSamples(c) # {}
          /\ AllBright(image) => img = image
    /\ (AllBright(image) /\ width >= 1 /\ height >= 1) => pc # "panicked"

\* A call on a raster of bright pixels only has returned, with candidates,
\* none of which got a sample in any stage.
C6_Witness ==
    /\ pc = "returned"
    /\ AllBright(image)
    /\ box_pixels # {}
    /\ \A c \in box_pixels :
          StageASamples(c) = {} /\ StageBSamples(c) = {} /\ StageCSamples(c) = {}

\* C7 as stated (exclusion mask): no stage samples a pixel of the mask.
\* Stage C samples for a candidate only when it is bright after stage B.
C7_NoStageSamplesMask ==
    /\ pc = "returned" =>
          \A c \in box_pixels :
              StageASamples(c) \cap mask = {} /\ StageBSamples(c) \cap mask = {}
    /\ pc = "inpaint3" =>
          \A c \in todo : AnyAbove(get_pixel(img, c), 220) => StageCSamples(c) \cap mask = {}

\* C7 (exclusion, as the code has it): stage A samples no pixel of the mask
\* and stage B no pixel of the candidate set.
C7_StagesAvoidTheirSet ==
    pc = "returned" =>
        \A c \in box_pixels :
            StageASamples(c) \cap mask = {} /\ StageBSamples(c) \cap box_pixels = {}

\* In a call that has returned, stage A found a sample for a candidate and
\* stage B sampled a pixel of the mask for it.
C7_Witness ==
    /\ pc = "returned"
    /\ \E c \in box_pixels : StageASamples(c) # {} /\ StageBSamples(c) \cap mask # {}

\* C8 as stated (convergence): detection on the result of a call returns
\* the empty set or a strict subset of the call's candidate set.
C8_EmptyOrStrictSubset ==
    pc = "checked" =>
        \/ box_pixels = {}
        \/ (box_pixels \subseteq first_box /\ box_pixels # first_box)

\* C8 (convergence, as the code has it): every pixel the brightness pass
\* finds in the result is one it finds in the input and a candidate of the
\* call, and detection on the result is empty when the call's set is.
C8_NoNewBrightPixels ==
    pc = "checked" =>
        /\ BrightPixels(img) \subseteq (BrightPixels(image) \cap first_box)
        /\ first_box = {} => box_pixels = {}

\* Detection on the result has returned the call's candidate set again.
C8_Witness ==
    /\ pc = "checked"
    /\ first_box # {}
    /\ box_pixels = first_box

\* C9 (solid rectangle): when the call on the scenario's raster has
\* returned, every pixel of the rectangle has each channel at most 50 and
\* the pixel (90, 10) is black.
C9_SolidRectangle ==
    (pc = "returned" /\ image = ScenarioRaster) =>
        /\ \A c \in Rectangle : \A k \in 1 .. 3 : get_pixel(img, c)[k] <= 50
        /\ get_pixel(img, <<90, 10>>) = Black

\* The call on the scenario's raster has returned, the rectangle among the
\* candidates.
C9_Witness ==
    /\ pc = "returned"
    /\ image = ScenarioRaster
    /\ Rectangle \subseteq box_pixels
    /\ img # image

\* C10 (is_complete): is_complete holds exactly when the seven optional
\* fields are set, not of a new session, and whatever copies_printed and
\* mailing_list are.
C10_IsComplete ==
    /\ is_complete(session) <=> \A k \in OptionKeys : session[k] # None
    /\ ~is_complete(Session_new)
    /\ \A copies \in {0, 1}, mailing \in {0, 1} :
          is_complete([session EXCEPT !.copies_printed = copies,
                                      !.mailing_list = mailing])
              <=> is_complete(session)

\* A complete session with a copy printed and no mailing list.
C10_Witness ==
    /\ is_complete(session)
    /\ session.copies_printed = 1
    /\ session.mailing_list = 0

\* C11 (generate_story is total): whenever class and choice are both set,
\* for every pair of i32 values, generate_story completes without panic and
\* leaves headline and story_text set.
C11_GenerateStoryTotal ==
    [][(generate_story /\ is_some(session.class) /\ is_some(session.choice))
          => /\ outcome' = "ok"
             /\ is_some(session'.headline)
             /\ is_some(session'.story_text)]_vars

\* What PORT, VIDEO_WIDTH and VIDEO_HEIGHT parse to where they are texts.
IsText(name) == env[name][1] = "text"
PortParsed == parse_u16(env.PORT[2])
WidthParses == IsText("VIDEO_WIDTH") => parse_u32(env.VIDEO_WIDTH[2]) # None
HeightParses == IsText("VIDEO_HEIGHT") => parse_u32(env.VIDEO_HEIGHT[2]) # None

\* A returned Config passes validate.
Valid(c) ==
    /\ c.server.port # 0
    /\ c.camera.width # 0
    /\ c.camera.height # 0
    /\ c.camera.format \in {"MJPG", "YUYV"}

\* C12 as stated (Config::from_env): from_env returns an error or a Config
\* that passes validate; a PORT text that does not parse as a 16-bit port,
\* or is 0, gives Err(InvalidPort); with PORT and VIDEO_WIDTH unset a
\* returned Config has port 8080 and width 1920.
C12_InvalidPortWhenever ==
    [][load_config =>
          /\ config'[1] = "Ok" => Valid(config'[2])
          /\ (IsText("PORT") /\ (PortParsed = None \/ PortParsed = Some(0)))
                => config' = Err("InvalidPort")
          /\ (env.PORT = Unset /\ env.VIDEO_WIDTH = Unset /\ config'[1] = "Ok")
                => /\ config'[2].server.port = 8080
                   /\ config'[2].camera.width = 1920]_vars

\* C12 amended: from_env returns an error or a Config that passes validate;
\* a PORT text that does not parse as a 16-bit port gives Err(InvalidPort);
\* a PORT text that parses to 0 gives Err(InvalidPort) if VIDEO_WIDTH and
\* VIDEO_HEIGHT parse, and the error of the first of them that does not
\* otherwise; a PORT that is unset or not Unicode counts as 8080 and a
\* VIDEO_WIDTH that is unset or not Unicode as 1920.
C12_FromEnv ==
    [][load_config =>
          /\ config'[1] = "Ok" => Valid(config'[2])
          /\ (IsText("PORT") /\ PortParsed = None) => config' = Err("InvalidPort")
          /\ (IsText("PORT") /\ PortParsed = Some(0))
                => config' = IF ~WidthParses THEN Err("InvalidVideoWidth")
                             ELSE IF ~HeightParses THEN Err("InvalidVideoHeight")
                             ELSE Err("InvalidPort")
          /\ (~IsText("PORT") /\ config'[1] = "Ok") => config'[2].server.port = 8080
          /\ (~IsText("VIDEO_WIDTH") /\ config'[1] = "Ok")
                => config'[2].camera.width = 1920]_vars

\* PORT is "+0", the dimensions parse, and from_env returned InvalidPort.
C12_Witness ==
    /\ env.PORT = Text(<<"+", "0">>)
    /\ WidthParses
    /\ HeightParses
    /\ config = Err("InvalidPort")

\* The proximity merge answered against the set as it was when the merge
\* began, which is the set of pass 1.
FrozenMerge ==
    BrightPixels(img) \cup
        {c \in edge_pixels :
            \E d \in Near2 : <<c[1] + d[1], c[2] + d[2]>> \in BrightPixels(img)}

\* C13 (frozen snapshots): when the proximity merge has ended, the set is
\* what the merge gives against the set it began with; and the set that
\* detection returns is the same in a second call on the same raster,
\* whatever the orders of iteration.
C13_FrozenSnapshots ==
    /\ (pc = "combine" /\ todo = {}) => detected_pixels = FrozenMerge
    /\ (call = "again" /\ pc \in {"inpaint1", "inpaint2", "inpaint3", "returned"})
          => box_pixels = first_box

\* C14 (proximity merge): throughout the merge, a pixel of the set that
\* pass 1 did not find is an edge pixel with a pixel of pass 1 within its
\* 5x5 neighbourhood.
C14_ProximityMerge ==
    pc = "combine" =>
        \A c \in detected_pixels \ BrightPixels(img) :
            /\ c \in edge_pixels
            /\ \E d \in Near2 : <<c[1] + d[1], c[2] + d[2]>> \in BrightPixels(img)

\* C15 (corner fill): an iteration of the corner fill adds pixels only
\* around a candidate that has the pixel directly left or right of it in the
\* set and the pixel directly above or below it in the set, itself not
\* counted, in column 0 and row 0 too.
C15_CornerNeedsNeighbours ==
    [][(Pass6Step /\ detected_pixels' # detected_pixels) =>
          \E c \in todo \ todo' :
              /\ <<c[1] - 1, c[2]>> \in detected_pixels \/ <<c[1] + 1, c[2]>> \in detected_pixels
              /\ <<c[1], c[2] - 1>> \in detected_pixels \/ <<c[1], c[2] + 1>> \in detected_pixels]_vars

\* C16 (reads stay in the search region): once the edge scan has run, every
\* pixel that pass 1 and the edge scan have read is in the search region;
\* the merge reads no pixel.
C16_ReadsInsideRegion ==
    pc = "combine" =>
        SearchRegion \cup UNION {EdgeReads(c) : c \in EdgeScan} \subseteq SearchRegion

\* C17 (passes 1 to 3 stay in the search region): up to the start of the
\* directional expansion every candidate has x < max_x and y >= min_y, and
\* the local expansion adds a pixel only if it is in the 5x5 neighbourhood
\* of a candidate, in the search region, and has a channel above 200.
C17_InsideRegion ==
    [][/\ pc \in {"pass2", "combine"} => detected_pixels \subseteq SearchRegion
       /\ Pass3Expand =>
             /\ \A n \in detected_pixels' : n[1] < max_x /\ n[2] >= min_y
             /\ \A n \in detected_pixels' \ detected_pixels :
                   /\ \E c \in detected_pixels :
                         Abs(n[1] - c[1]) <= 2 /\ Abs(n[2] - c[2]) <= 2
                   /\ n \in SearchRegion
                   /\ AnyAbove(get_pixel(img, n), 200)]_vars

\* The local expansion has added a pixel, and has left out a pixel with a
\* channel above 200 that is in the 5x5 neighbourhood of a candidate but
\* outside the search region.
C17_Witness ==
    /\ pc = "pass4"
    /\ todo = detected_pixels
    /\ detected_pixels \ (BrightPixels(img) \cup edge_pixels) # {}
    /\ \E c \in detected_pixels, d \in Near2 :
          /\ <<c[1] + d[1], c[2] + d[2]>> \in Coords(width, height) \ detected_pixels
          /\ AnyAbove(get_pixel(img, <<c[1] + d[1], c[2] + d[2]>>), 200)

\* C18 (bounded escape from the search region): every candidate, at any
\* time and in the set returned, has x <= max_x + 9 and y >= min_y - 34;
\* during and after the directional expansion, until the upward completion
\* runs, every candidate has x < max_x + 5 and y >= min_y - 8.
C18_BoundedEscape ==
    /\ \A c \in detected_pixels \cup box_pixels : c[1] <= max_x + 9 /\ c[2] >= min_y - 34
    /\ pc = "pass4" => \A c \in detected_pixels : c[1] < max_x + 5 /\ c[2] >= min_y - 8

\* A call has returned a set with a candidate in column max_x + 9 and a
\* candidate in row min_y - 34, both inside the raster.
C18_Witness ==
    /\ pc = "returned"
    /\ max_x + 9 < width - 1
    /\ min_y - 34 > 0
    /\ \E c \in box_pixels : c[1] = max_x + 9
    /\ \E c \in box_pixels : c[2] = min_y - 34

\* The nearest row above c, at most 20 rows away, whose pixel in c's column
\* has a channel above 200 is row h.
NearestBrightAbove(c, h) ==
    /\ h \in Max(0, c[2] - 20) .. c[2] - 1
    /\ AnyAbove(get_pixel(img, <<c[1], h>>), 200)
    /\ \A k \in h + 1 .. c[2] - 1 : ~AnyAbove(get_pixel(img, <<c[1], k>>), 200)

\* C19 (upward edge completion): the pass removes nothing; every pixel it
\* adds lies in the column of a snapshot candidate c, between c and the
\* nearest pixel at most 20 rows above c with a channel above 200, that
\* pixel included; and the whole of each such segment is added. A candidate
\* with no such pixel above it contributes nothing.
C19_UpwardCompletion ==
    [][Pass5EdgeCompletion /\ pc' = "pass6" =>
          /\ detected_pixels \subseteq detected_pixels'
          /\ \A n \in detected_pixels' \ detected_pixels :
                \E c \in detected_pixels :
                   /\ n[1] = c[1]
                   /\ n[2] < c[2]
                   /\ \E h \in 0 .. n[2] : NearestBrightAbove(c, h)
          /\ \A c \in detected_pixels :
                \A h \in 0 .. c[2] - 1 :
                   NearestBrightAbove(c, h) =>
                      \A fill_y \in h .. c[2] : <<c[1], fill_y>> \in detected_pixels']_vars

\* The completion has just run and has filled a segment of 20 rows above a
\* candidate, up to a bright pixel that was no candidate before, and has left
\* a column with no bright pixel above its candidates as it was.
C19_Witness ==
    /\ pc = "pass6"
    /\ todo = detected_pixels
    /\ \E c \in detected_pixels :
          /\ NearestBrightAbove(c, c[2] - 20)
          /\ c[2] - 20 < min_y - 8
          /\ \A fill_y \in c[2] - 20 .. c[2] : <<c[1], fill_y>> \in detected_pixels
    /\ \E c \in detected_pixels :
          /\ c[2] > 20
          /\ \A h \in 0 .. c[2] - 1 : ~AnyAbove(get_pixel(img, <<c[1], h>>), 200)
          /\ \A h \in 0 .. min_y - 9 : <<c[1], h>> \notin detected_pixels

\* C20 (exclusion mask): while the raster is inpainted, a coordinate is in
\* the mask exactly when it is inside the raster and some candidate is at
\* most 7 columns and at most 10 rows away from it, whatever the pixel
\* values are; and every candidate is in the mask.
C20_MaskIsDilation ==
    Inpainting =>
       /\ \A n \in Coords(width, height) :
             n \in mask <=> \E c \in box_pixels :
                               Abs(n[1] - c[1]) <= 7 /\ Abs(n[2] - c[2]) <= 10
       /\ mask \subseteq Coords(width, height)
       /\ box_pixels \subseteq mask

\* The raster is being inpainted with a mask that reaches 7 columns and 10
\* rows beyond the candidates on each side, is clipped at the left edge of
\* the raster and leaves part of the raster out.
C20_Witness ==
    /\ Inpainting
    /\ \E n \in mask : \A c \in box_pixels : n[1] - c[1] >= 7
    /\ \E n \in mask : \A c \in box_pixels : c[2] - n[2] >= 10
    /\ \E n \in mask : \A c \in box_pixels : n[2] - c[2] >= 10
    /\ \E c \in box_pixels : c[1] < 7
    /\ mask # Coords(width, height)

\* The pixels of the ray from c in direction dir at the steps 12 to 25 that
\* are inside the raster, outside the mask and have all channels below 200
\* in the raster stage A reads.
QualifyingSteps(c, dir) ==
    {d \in 12 .. 25 :
        /\ InBounds(RayAt(c, dir, d)[1], RayAt(c, dir, d)[2])
        /\ RayAt(c, dir, d) \notin mask
        /\ AllBelow(get_pixel(original, RayAt(c, dir, d)), 200)}

StageAHasRun == pc \in {"inpaint2", "inpaint3", "returned"} /\ original # None

\* Stage A, and stage B, has run over all candidates and the next stage has
\* yet to begin.
StageAEnded == pc = "inpaint2" /\ todo = box_pixels
StageBEnded == pc = "inpaint3" /\ todo = box_pixels

\* C21 (stage A ray range): once stage A has run, for every candidate and
\* each of the 8 directions, the samples of the candidate on that ray are
\* the one nearest qualifying pixel at a step from 12 to 25, the step 25
\* included, and none when no pixel of the ray qualifies.
C21_RayRange ==
    StageAHasRun =>
        \A c \in box_pixels : \A i \in DOMAIN directions :
            StageASamples(c) \cap {RayAt(c, directions[i], d) : d \in 1 .. 40}
                = IF QualifyingSteps(c, directions[i]) = {} THEN {}
                  ELSE {RayAt(c, directions[i], MinOf(QualifyingSteps(c, directions[i])))}

\* The values stage A collected for the candidate c, in the order of the
\* directions.
StageAValues(c) ==
    [i \in DOMAIN FarSampleCoords(original, c, mask) |->
        get_pixel(original, FarSampleCoords(original, c, mask)[i])]

\* v is the element at index idx, counted from 0, of the values sorted
\* ascending.
IsSortedAt(values, idx, v) ==
    /\ \E i \in DOMAIN values : values[i] = v
    /\ Cardinality({i \in DOMAIN values : values[i] < v}) <= idx
    /\ idx < Cardinality({i \in DOMAIN values : values[i] <= v})

\* v is the quotient of the integer division of the sum of the values by
\* their number.
IsMean(values, v) ==
    /\ v * Len(values) <= SumSeq(values)
    /\ SumSeq(values) < (v + 1) * Len(values)

\* C22 (stage A replacement rule): when stage A has ended, a candidate with
\* n samples has in stage A's output, channel by channel, the element at
\* index n / 2 of the sorted sample values if n >= 4, the mean of the
\* sample values, rounded down, if 1 <= n <= 3, and its input value if
\* n = 0.
C22_ReplacementRule ==
    StageAEnded =>
        \A c \in box_pixels :
            /\ Len(StageAValues(c)) >= 4 =>
                  \A k \in 1 .. 3 :
                      IsSortedAt(Channel(StageAValues(c), k), Len(StageAValues(c)) \div 2,
                                 get_pixel(intermediate, c)[k])
            /\ Len(StageAValues(c)) \in 1 .. 3 =>
                  \A k \in 1 .. 3 :
                      IsMean(Channel(StageAValues(c), k), get_pixel(intermediate, c)[k])
            /\ Len(StageAValues(c)) = 0 =>
                  get_pixel(intermediate, c) = get_pixel(image, c)

\* Stage A has ended on a raster where one candidate has 4 samples of
\* different values in a channel, another has 3 samples whose sum is no
\* multiple of 3, and a third has none.
C22_Witness ==
    /\ StageAEnded
    /\ \E c \in box_pixels :
          /\ Len(StageAValues(c)) = 4
          /\ Cardinality(SeqRange(Channel(StageAValues(c), 1))) = 4
    /\ \E c \in box_pixels :
          /\ Len(StageAValues(c)) = 3
          /\ SumSeq(Channel(StageAValues(c), 1)) % 3 # 0
    /\ \E c \in box_pixels : Len(StageAValues(c)) = 0

\* The pixels at most r columns and r rows from c that are inside the
\* raster and more than inner columns or rows from c.
RingOf(c, inner, r) ==
    {n \in (c[1] - r .. c[1] + r) \X (c[2] - r .. c[2] + r) :
        /\ n \in Coords(width, height)
        /\ ~(Abs(n[1] - c[1]) <= inner /\ Abs(n[2] - c[2]) <= inner)}

\* The pixels of the 31 x 31 window of c that are inside the raster, outside
\* the inner 9 x 9 window, no candidates, and have no channel above 210 in
\* stage A's output.
StageBQualifying(c) ==
    {n \in RingOf(c, 4, 15) : n \notin box_pixels /\ ~AnyAbove(get_pixel(intermediate, n), 210)}

\* C23 (stage B sample set): when stage B has ended, every pixel it sampled
\* for a candidate is inside the raster and the 31 x 31 window, outside the
\* inner 9 x 9 window, no candidate, and has no channel above 210 in stage
\* A's output; a candidate with no such pixel has its stage A value, and any
\* other has in each channel a value between the least and the greatest of
\* its samples.
C23_StageBSamples ==
    StageBEnded =>
        \A c \in box_pixels :
            /\ StageBSamples(c) \subseteq StageBQualifying(c)
            /\ StageBQualifying(c) = {} => get_pixel(img, c) = get_pixel(intermediate, c)
            /\ StageBQualifying(c) # {} =>
                  \A k \in 1 .. 3 :
                      /\ \E n \in StageBQualifying(c) :
                            get_pixel(intermediate, n)[k] <= get_pixel(img, c)[k]
                      /\ \E n \in StageBQualifying(c) :
                            get_pixel(intermediate, n)[k] >= get_pixel(img, c)[k]

\* Stage B has ended; one candidate had no pixel to sample; another had
\* samples while its window held, outside the inner window, a candidate and
\* a pixel that is no candidate and has a channel above 210.
C23_Witness ==
    /\ StageBEnded
    /\ \E c \in box_pixels : StageBQualifying(c) = {}
    /\ \E c \in box_pixels :
          /\ StageBSamples(c) # {}
          /\ RingOf(c, 4, 15) \cap box_pixels # {}
          /\ \E n \in RingOf(c, 4, 15) \ box_pixels : AnyAbove(get_pixel(intermediate, n), 210)

\* C24 (stage C sample set): a step of stage C changes a candidate only if
\* the candidate has a channel above 220 after stage B, and what stage C
\* samples for such a candidate is inside the raster and the 41 x 41 window,
\* outside the inner 17 x 17 window (not both at most 8 columns and at most
\* 8 rows away) and has all three channels below 180.
C24_StageCSamples ==
    [][Inpaint3Step =>
          \A c \in box_pixels :
              /\ get_pixel(img', c) # get_pixel(img, c) => AnyAbove(get_pixel(img, c), 220)
              /\ (c \in todo /\ AnyAbove(get_pixel(img, c), 220)) =>
                    \A n \in StageCSamples(c) :
                        /\ n \in RingOf(c, 8, 20)
                        /\ AllBelow(get_pixel(intermediate, n), 180)]_vars

\* The values stage C collects for the candidate c, in scan order.
StageCValues(c) ==
    [i \in DOMAIN CleanupSampleCoords(intermediate, c) |->
        get_pixel(intermediate, CleanupSampleCoords(intermediate, c)[i])]

\* The channel sums of the samples.
Sums(samples) == [i \in DOMAIN samples |-> samples[i][1] + samples[i][2] + samples[i][3]]

\* What the selection rule of stage C allows as the value of a candidate
\* after the stage, given its value before and its samples.
SelectedByRule(before, samples, after) ==
    /\ Len(samples) >= 10 =>
          /\ \E i \in DOMAIN samples : samples[i] = after
          /\ IsSortedAt(Sums(samples), (Len(samples) * 25) \div 100,
                        after[1] + after[2] + after[3])
    /\ Len(samples) \in 1 .. 9 =>
          \A k \in 1 .. 3 : IsSortedAt(Channel(samples, k), Len(samples) \div 2, after[k])
    /\ Len(samples) = 0 => after = before
    /\ after # before => AllBelow(after, 180)

\* C25 (stage C selection rule): a step of stage C gives each candidate it
\* visits that has a channel above 220, with its n samples: for n >= 10 the
\* sample at index n * 25 / 100 of the samples sorted ascending by channel
\* sum, for 1 <= n <= 9 the per-channel median, for n = 0 the value it had;
\* and a value it replaces has all three channels below 180.
C25_SelectionRule ==
    [][Inpaint3Step =>
          \A c \in todo \ todo' :
              AnyAbove(get_pixel(img, c), 220) =>
                  SelectedByRule(get_pixel(img, c), StageCValues(c), get_pixel(img', c))]_vars

\* Stage C has visited a candidate that stages A and B had left white, had
\* 10 or more samples of which no two have the same channel sum, and has
\* replaced it.
C25_Witness ==
    /\ pc \in {"inpaint3", "returned"}
    /\ \E c \in box_pixels \ todo :
          /\ get_pixel(image, c) = White
          /\ StageASamples(c) = {}
          /\ StageBSamples(c) = {}
          /\ Len(StageCValues(c)) >= 10
          /\ Cardinality(SeqRange(Sums(StageCValues(c)))) = Len(StageCValues(c))
          /\ get_pixel(img, c) # White

\* What stage B wrote for the candidate c.
StageBValue(c) ==
    IF bilateral_sample(intermediate, c, box_pixels) # None
    THEN bilateral_sample(intermediate, c, box_pixels)
    ELSE get_pixel(intermediate, c)

\* Stage B's completed output, while stage C runs: the working raster, but
\* for the candidates stage C has visited, which have what stage B wrote.
StageBOutput ==
    [y \in 1 .. height |->
        [x \in 1 .. width |->
            IF <<x - 1, y - 1>> \in box_pixels \ todo
            THEN StageBValue(<<x - 1, y - 1>>)
            ELSE img[y][x]]]

\* What stage C gives the candidate c when it takes its samples from the
\* raster im.
CleanedFrom(im, c) ==
    IF aggressive_cleanup(im, c) # None THEN aggressive_cleanup(im, c) ELSE get_pixel(img, c)

\* C26 (stage chaining): stage A samples the untouched input; stage B
\* samples the raster stage A left when it ended; stage C samples the raster
\* stage B left when it ended, and gives every candidate it acts on the
\* value its rule selects from that raster.
C26_StageChaining ==
    [][/\ Inpaint1Step => original = image
       /\ Inpaint2Step => (StageAEnded => intermediate = img)
       /\ Inpaint3Step =>
             \A c \in todo \ todo' :
                 AnyAbove(get_pixel(img, c), 220) =>
                     get_pixel(img', c) = CleanedFrom(StageBOutput, c)]_vars

\* What stage A gives the candidate c, from the input raster and the mask
\* alone.
StageAValue(c) ==
    IF sample_far_neighbors(image, c, mask) # None
    THEN sample_far_neighbors(image, c, mask)
    ELSE get_pixel(image, c)

\* What the three stages give the candidate c, from stage A's output and
\* the candidate set alone.
FinalValue(c) ==
    IF AnyAbove(StageBValue(c), 220) /\ aggressive_cleanup(intermediate, c) # None
    THEN aggressive_cleanup(intermediate, c)
    ELSE StageBValue(c)

\* C27 (order independence): in whatever order the candidates are visited,
\* stage A's output has for every candidate the value that follows from the
\* input raster and the mask, and the returned raster has for every
\* candidate the value that follows from stage A's output and the candidate
\* set; no value depends on what the same stage wrote for another candidate.
C27_OrderIndependent ==
    /\ StageAEnded =>
          \A c \in Coords(width, height) :
              get_pixel(intermediate, c) =
                  IF c \in box_pixels THEN StageAValue(c) ELSE get_pixel(image, c)
    /\ (pc = "returned" /\ box_pixels # {}) =>
          \A c \in box_pixels : get_pixel(img, c) = FinalValue(c)

\* A call has returned with more candidates than the orders explored leave
\* in row-major order; stage C has replaced a candidate whose window holds
\* candidates that stage B had replaced.
C27_Witness ==
    /\ pc = "returned"
    /\ Cardinality(box_pixels) > MaxFreeOrder
    /\ \E c \in box_pixels :
          /\ AnyAbove(get_pixel(intermediate, c), 220)
          /\ StageBSamples(c) = {}
          /\ get_pixel(img, c) # get_pixel(intermediate, c)
          /\ \E n \in RingOf(c, 7, 20) \cap box_pixels :
                get_pixel(img, n) # get_pixel(intermediate, n)

\* C28 (stage C acts on what stages A and B left unresolved): a candidate
\* for which stage A found samples has all channels below 200 in stage A's
\* output; one for which stage B found samples has no channel above 210
\* after stage B; either has no channel above 220 after stage B; and a step
\* of stage C changes only candidates for which neither stage found a
\* sample.
C28_CleanupOnlyUnresolved ==
    [][Inpaint3Step =>
          /\ StageBEnded =>
                \A c \in box_pixels :
                    /\ StageASamples(c) # {} => AllBelow(get_pixel(intermediate, c), 200)
                    /\ StageBSamples(c) # {} => ~AnyAbove(get_pixel(img, c), 210)
                    /\ (StageASamples(c) # {} \/ StageBSamples(c) # {}) =>
                          ~AnyAbove(get_pixel(img, c), 220)
          /\ \A c \in Coords(width, height) :
                get_pixel(img', c) # get_pixel(img, c) =>
                    /\ c \in box_pixels
                    /\ StageASamples(c) = {}
                    /\ StageBSamples(c) = {}]_vars

\* A call has returned in which stage A replaced a white candidate, stage B
\* replaced a candidate that stage A had found no sample for, and both have
\* the value stage B left.
C28_Witness ==
    /\ pc = "returned"
    /\ \E c \in box_pixels :
          /\ get_pixel(image, c) = White
          /\ StageASamples(c) # {}
          /\ get_pixel(intermediate, c) # White
          /\ get_pixel(img, c) = StageBValue(c)
    /\ \E c \in box_pixels :
          /\ StageASamples(c) = {}
          /\ StageBSamples(c) # {}
          /\ get_pixel(img, c) # get_pixel(image, c)
          /\ get_pixel(img, c) = StageBValue(c)

\* C29 (what the output holds at a candidate): no step of a stage writes a
\* value with a channel above 210; and in the raster returned every
\* candidate has no channel above 210 or has its input value, the latter
\* with a channel above 210 only when stages A and B found no sample for it
\* and stage C, if the candidate was bright enough for it to act, found
\* none either.
C29_OutputAtCandidates ==
    [][/\ (Inpaint1Step \/ Inpaint2Step \/ Inpaint3Step) =>
             \A c \in Coords(width, height) :
                 get_pixel(img', c) # get_pixel(img, c) => ~AnyAbove(get_pixel(img', c), 210)
       /\ pc' = "returned" =>
             \A c \in box_pixels' :
                 \/ ~AnyAbove(get_pixel(img', c), 210)
                 \/ /\ get_pixel(img', c) = get_pixel(image, c)
                    /\ StageASamples(c) = {}
                    /\ StageBSamples(c) = {}
                    /\ AnyAbove(get_pixel(image, c), 220) => StageCSamples(c) = {}]_vars

\* A call has returned a raster in which one candidate that had a channel
\* above 210 has a value the stages wrote, and another has its input value,
\* with a channel above 210.
C29_Witness ==
    /\ pc = "returned"
    /\ \E c \in box_pixels :
          /\ get_pixel(img, c) # get_pixel(image, c)
          /\ AnyAbove(get_pixel(image, c), 210)
    /\ \E c \in box_pixels :
          /\ get_pixel(img, c) = get_pixel(image, c)
          /\ AnyAbove(get_pixel(img, c), 210)

\* The pixels of the search region with all three channels above 235 in the
\* raster detection reads.
BrightInRegion == {c \in SearchRegion : AllAbove(get_pixel(img, c), 235)}

\* C30 (detection only grows its set): no pass removes a pixel from the
\* set; the set detection returns holds every pixel of the search region
\* with all three channels above 235, and is non-empty exactly when there is
\* such a pixel.
C30_DetectionGrows ==
    [][/\ (\/ Pass1Bright \/ Pass2EdgeScan \/ CombineStep \/ Pass3Expand
           \/ Pass4Step \/ Pass5EdgeCompletion \/ Pass6Step) =>
             detected_pixels \subseteq detected_pixels'
       /\ Collect =>
             /\ detected_pixels \subseteq box_pixels'
             /\ BrightInRegion \subseteq box_pixels'
             /\ box_pixels' # {} <=> BrightInRegion # {}]_vars

\* Detection has returned a set that holds a bright pixel of the search
\* region, an edge pixel that is not bright and a pixel outside the search
\* region.
C30_Witness ==
    /\ pc = "inpaint1"
    /\ todo = box_pixels
    /\ BrightInRegion # {}
    /\ (edge_pixels \cap box_pixels) \ BrightInRegion # {}
    /\ box_pixels \ SearchRegion # {}

====
